---- MODULE Spec2Model ----
(***************************************************************************)
(* Product inventory: the ProductForm validator (inventory/forms.py), the  *)
(* Product store and the list/create/update/delete handlers exercised by   *)
(* inventory/tests.py.                                                     *)
(*                                                                         *)
(* Text is a sequence of characters; " " is the whitespace character.      *)
(* A decimal is an integer number of hundredths (two fractional places).   *)
(* A submitted text field is [given, text]; a submitted number is          *)
(* [kind, neg, whole, frac] with kind "missing" (key absent or empty),     *)
(* "text" (not a number) or "num" (sign, integer part, hundredths).        *)
(***************************************************************************)
EXTENDS Integers, Sequences, FiniteSets, TLC

VARIABLES store, nextId, deleted, pending, resp, form

vars == <<store, nextId, deleted, pending, resp, form>>

\* ---------------------------------------------------------------- bounds
MaxId == 2
MaxShort == 2
MaxWhole == 1

\* max_length of Product.name
MaxLength == 100

\* ------------------------------------------------------------ text values
Rep(c, n) == [i \in 1..n |-> c]

RECURSIVE lstrip(_)
lstrip(s) == IF s # <<>> /\ Head(s) = " " THEN lstrip(Tail(s)) ELSE s

RECURSIVE rstrip(_)
rstrip(s) ==
    IF s # <<>> /\ s[Len(s)] = " " THEN rstrip(SubSeq(s, 1, Len(s) - 1)) ELSE s

strip(s) == rstrip(lstrip(s))

RECURSIVE SeqsUpTo(_, _)
SeqsUpTo(S, n) ==
    IF n = 0 THEN {<<>>}
    ELSE LET shorter == SeqsUpTo(S, n - 1)
         IN  shorter \cup {Append(s, c) : s \in shorter, c \in S}

Text(s) == [given |-> TRUE, text |-> s]
NoText == [given |-> FALSE, text |-> <<>>]

Num(neg, whole, frac) == [kind |-> "num", neg |-> neg, whole |-> whole, frac |-> frac]
NoNum == [kind |-> "missing", neg |-> FALSE, whole |-> 0, frac |-> 0]
BadNum == [kind |-> "text", neg |-> FALSE, whole |-> 0, frac |-> 0]

\* --------------------------------------------------- form fields (Django)
Ok(v) == [ok |-> TRUE, val |-> <<v>>, msg |-> ""]
Err(m) == [ok |-> FALSE, val |-> <<>>, msg |-> m]

CharField_clean_nostrip(raw, required, max_length) ==
    LET value == IF raw.given THEN raw.text ELSE <<>>
    IN  IF required /\ value = <<>> THEN Err("This field is required.")
        ELSE IF max_length > 0 /\ Len(value) > max_length
             THEN Err("Ensure this value has at most 100 characters.")
             ELSE Ok(value)

\* forms.CharField.clean: to_python strips, then required, then max_length.
CharField_clean(raw, required, max_length) ==
    LET value == IF raw.given THEN strip(raw.text) ELSE <<>>
    IN  IF required /\ value = <<>> THEN Err("This field is required.")
        ELSE IF max_length > 0 /\ Len(value) > max_length
             THEN Err("Ensure this value has at most 100 characters.")
             ELSE Ok(value)

\* the value of a submitted number, in hundredths
to_hundredths(raw) ==
    IF raw.neg THEN 0 - (raw.whole * 100 + raw.frac) ELSE raw.whole * 100 + raw.frac

\* forms.DecimalField.clean
DecimalField_clean(raw) ==
    IF raw.kind = "missing" THEN Err("This field is required.")
    ELSE IF raw.kind = "text" THEN Err("Enter a number.")
    ELSE Ok(to_hundredths(raw))

\* forms.IntegerField.clean: a fractional part other than zeros is refused
IntegerField_clean(raw) ==
    IF raw.kind = "missing" THEN Err("This field is required.")
    ELSE IF raw.kind = "text" \/ raw.frac # 0 THEN Err("Enter a whole number.")
    ELSE Ok(IF raw.neg THEN 0 - raw.whole ELSE raw.whole)

\* ------------------------------------------------------------ ProductForm
Fields_without_description == <<"name", "price", "quantity">>

\* Meta.fields
Fields == <<"name", "description", "price", "quantity">>

field_clean(f, raw) ==
    CASE f = "name" -> CharField_clean(raw, TRUE, MaxLength)
      [] f = "description" -> CharField_clean(raw, FALSE, 0)
      [] f = "price" -> DecimalField_clean(raw)
      [] f = "quantity" -> IntegerField_clean(raw)

\* cleaned_data.get(key): <<>> is None
get(cleaned_data, key) ==
    IF key \in DOMAIN cleaned_data THEN <<cleaned_data[key]>> ELSE <<>>

clean_quantity_unchecked(cleaned_data) ==
    [ok |-> TRUE, val |-> get(cleaned_data, "quantity"), msg |-> ""]

clean_quantity_boundary(cleaned_data) ==
    LET quantity == get(cleaned_data, "quantity")
    IN  IF quantity # <<>> /\ quantity[1] <= 0
        THEN Err("Quantity cannot be negative.")
        ELSE [ok |-> TRUE, val |-> quantity, msg |-> ""]

clean_quantity(cleaned_data) ==
    LET quantity == get(cleaned_data, "quantity")
    IN  IF quantity # <<>> /\ quantity[1] < 0
        THEN Err("Quantity cannot be negative.")
        ELSE [ok |-> TRUE, val |-> quantity, msg |-> ""]

clean_price_unchecked(cleaned_data) ==
    [ok |-> TRUE, val |-> get(cleaned_data, "price"), msg |-> ""]

clean_price_inverted(cleaned_data) ==
    LET price == get(cleaned_data, "price")
    IN  IF price # <<>> /\ price[1] > 0
        THEN Err("Price cannot be negative.")
        ELSE [ok |-> TRUE, val |-> price, msg |-> ""]

clean_price(cleaned_data) ==
    LET price == get(cleaned_data, "price")
    IN  IF price # <<>> /\ price[1] < 0
        THEN Err("Price cannot be negative.")
        ELSE [ok |-> TRUE, val |-> price, msg |-> ""]

NoErrors == [k \in {} |-> ""]
NoData == [k \in {} |-> 0]

without(fn, key) == [k \in DOMAIN fn \ {key} |-> fn[k]]

\* BaseForm.add_error: record the message, drop the field from cleaned_data
add_error(f, field, msg) ==
    [errors |-> (field :> msg) @@ f.errors,
     cleaned_data |-> without(f.cleaned_data, field)]

has_clean_method(field) == field \in {"price", "quantity"}

clean_method(field, cleaned_data) ==
    IF field = "price" THEN clean_price(cleaned_data) ELSE clean_quantity(cleaned_data)

\* one turn of BaseForm._clean_fields: field.clean, then clean_<name>
clean_field(f, field, raw) ==
    LET r == field_clean(field, raw)
    IN  IF ~r.ok THEN add_error(f, field, r.msg)
        ELSE LET g == [f EXCEPT !.cleaned_data = (field :> r.val[1]) @@ f.cleaned_data]
             IN  IF ~has_clean_method(field) THEN g
                 ELSE LET c == clean_method(field, g.cleaned_data)
                      IN  IF c.ok THEN g ELSE add_error(g, field, c.msg)

RECURSIVE clean_fields_first_error(_, _, _)
clean_fields_first_error(f, data, i) ==
    IF i > Len(Fields) \/ DOMAIN f.errors # {} THEN f
    ELSE clean_fields_first_error(clean_field(f, Fields[i], data[Fields[i]]), data, i + 1)

RECURSIVE clean_fields(_, _, _)
clean_fields(f, data, i) ==
    IF i > Len(Fields) THEN f
    ELSE clean_fields(clean_field(f, Fields[i], data[Fields[i]]), data, i + 1)

full_clean(data) ==
    clean_fields([errors |-> NoErrors, cleaned_data |-> NoData], data, 1)

is_valid(f) == DOMAIN f.errors = {}

\* ModelForm._post_clean / construct_instance: the cleaned values of the
\* form's fields are copied onto the instance
Range(seq) == {seq[i] : i \in DOMAIN seq}

construct_instance(instance, cleaned_data) ==
    [k \in DOMAIN instance |->
        IF k \in Range(Fields) /\ k \in DOMAIN cleaned_data
        THEN cleaned_data[k] ELSE instance[k]]

\* ------------------------------------------------------- Product and store
None == "None"

\* Product(): an unsaved instance, no field set
Product == [name |-> <<>>, description |-> <<>>, price |-> None, quantity |-> None]

Ids == 1..MaxId

store_get_or_new(s, pk) == IF pk \in DOMAIN s THEN <<s[pk]>> ELSE <<Product>>

store_get(s, pk) == IF pk \in DOMAIN s THEN <<s[pk]>> ELSE <<>>

store_create(s, pk, fields) == (pk :> fields) @@ s

store_update_upsert(s, pk, fields) == (pk :> fields) @@ s

\* update: NotFound (the store as it was) when the id is absent
store_update(s, pk, fields) ==
    IF pk \in DOMAIN s THEN [s EXCEPT ![pk] = fields] ELSE s

store_delete_noop(s, pk) == s

store_delete(s, pk) == [k \in DOMAIN s \ {pk} |-> s[k]]

\* ---------------------------------------------------------------- handlers
NoProducts == [k \in {} |-> 0]

Response(op, status, pk, errors, products) ==
    [op |-> op, status |-> status, pk |-> pk, errors |-> errors, products |-> products]

OK == 200
REDIRECT == 302
NOT_FOUND == 404

product_list ==
    /\ resp' = Response("list", OK, 0, NoErrors, store)
    /\ UNCHANGED <<store, nextId, deleted, pending, form>>

product_create(data) ==
    LET f == full_clean(data)
    IN  IF is_valid(f)
        THEN /\ nextId <= MaxId
             /\ store' = store_create(store, nextId, construct_instance(Product, f.cleaned_data))
             /\ nextId' = nextId + 1
             /\ resp' = Response("create", REDIRECT, nextId, NoErrors, NoProducts)
             /\ UNCHANGED <<deleted, pending, form>>
        ELSE /\ resp' = Response("create", OK, 0, f.errors, NoProducts)
             /\ UNCHANGED <<store, nextId, deleted, pending, form>>

\* update, first store call: resolve the id (get_object_or_404)
product_update_get(pk) ==
    /\ pending = <<>>
    /\ LET found == store_get(store, pk)
       IN  IF found = <<>>
           THEN /\ resp' = Response("update", NOT_FOUND, pk, NoErrors, NoProducts)
                /\ UNCHANGED pending
           ELSE /\ pending' = <<[pk |-> pk, instance |-> found[1]]>>
                /\ UNCHANGED resp
    /\ UNCHANGED <<store, nextId, deleted, form>>

\* update, second part: validate bound to the instance, then save
product_update_save(data) ==
    /\ pending # <<>>
    /\ LET pk == pending[1].pk
           f == full_clean(data)
       IN  IF ~is_valid(f)
           THEN /\ resp' = Response("update", OK, pk, f.errors, NoProducts)
                /\ UNCHANGED store
           ELSE /\ store' = store_update(store, pk,
                                construct_instance(pending[1].instance, f.cleaned_data))
                /\ resp' = IF pk \in DOMAIN store
                           THEN Response("update", REDIRECT, pk, NoErrors, NoProducts)
                           ELSE Response("update", NOT_FOUND, pk, NoErrors, NoProducts)
    /\ pending' = <<>>
    /\ UNCHANGED <<nextId, deleted, form>>

product_delete(pk) ==
    /\ IF pk \in DOMAIN store
       THEN /\ store' = store_delete(store, pk)
            /\ deleted' = deleted \cup {pk}
            /\ resp' = Response("delete", REDIRECT, pk, NoErrors, NoProducts)
       ELSE /\ resp' = Response("delete", NOT_FOUND, pk, NoErrors, NoProducts)
            /\ UNCHANGED <<store, deleted>>
    /\ UNCHANGED <<nextId, pending, form>>

\* ------------------------------------------------------------------ inputs
LongName == Rep("a", MaxLength)

FormNames ==
    {NoText} \cup {Text(s) : s \in SeqsUpTo({" ", "a"}, MaxShort)}
    \cup {Text(LongName), Text(Append(LongName, "a")),
          Text(<<" ">> \o LongName \o <<" ">>)}

FormNumbers ==
    {NoNum, BadNum}
    \cup {Num(n, w, fr) : n \in BOOLEAN, w \in 0..MaxWhole, fr \in {0, 50}}

FormInputs ==
    [name : FormNames, description : {NoText, Text(<<" ", "d">>)},
     price : FormNumbers, quantity : FormNumbers]

Data(name, description, price, quantity) ==
    [name |-> name, description |-> description, price |-> price, quantity |-> quantity]

\* the request bodies of the handlers: three that validate, and bodies that
\* break one rule, two rules and every rule
ViewInputs ==
    {Data(Text(<<" ", "a", " ">>), NoText, Num(FALSE, 0, 0), Num(FALSE, 0, 0)),
     Data(Text(LongName), Text(<<"d", " ">>), Num(FALSE, 7, 50), Num(FALSE, 3, 0)),
     Data(Text(<<"a">>), Text(<<"d">>), Num(TRUE, 0, 0), Num(FALSE, 3, 0)),
     Data(Text(<<" ">>), Text(<<"d">>), Num(FALSE, 7, 50), Num(FALSE, 3, 0)),
     Data(NoText, NoText, Num(FALSE, 0, 0), Num(FALSE, 0, 0)),
     Data(Text(Append(LongName, "a")), NoText, Num(FALSE, 0, 0), Num(FALSE, 0, 0)),
     Data(Text(<<"a">>), Text(<<"d">>), Num(TRUE, 1, 0), Num(FALSE, 3, 0)),
     Data(Text(<<"a">>), Text(<<"d">>), Num(FALSE, 7, 50), Num(TRUE, 1, 0)),
     Data(Text(<<"a">>), NoText, BadNum, Num(FALSE, 0, 50)),
     Data(Text(<<"a">>), NoText, Num(TRUE, 0, 50), Num(TRUE, 1, 0)),
     Data(Text(<<>>), NoText, Num(TRUE, 1, 0), Num(TRUE, 1, 0)),
     Data(NoText, NoText, NoNum, NoNum)}

\* ----------------------------------------------------------- ProductForm()
NewForm(data) ==
    [data |-> data, cleaned |-> FALSE, errors |-> NoErrors, cleaned_data |-> NoData,
     valid |-> FALSE]

BlankData == [name |-> NoText, description |-> NoText, price |-> NoNum, quantity |-> NoNum]

\* form.is_valid() on a bound form
form_is_valid ==
    /\ ~form.cleaned
    /\ LET f == full_clean(form.data)
       IN  form' = [data |-> form.data, cleaned |-> TRUE, errors |-> f.errors,
                    cleaned_data |-> f.cleaned_data, valid |-> is_valid(f)]
    /\ UNCHANGED <<store, nextId, deleted, pending, resp>>

\* ---------------------------------------------------------- specifications
Init ==
    /\ store = NoProducts
    /\ nextId = 1
    /\ deleted = {}
    /\ pending = <<>>
    /\ resp = Response("none", OK, 0, NoErrors, NoProducts)
    /\ form = NewForm(BlankData)

Next ==
    \/ product_list
    \/ \E data \in ViewInputs : product_create(data)
    \/ \E pk \in Ids : product_update_get(pk)
    \/ \E data \in ViewInputs : product_update_save(data)
    \/ \E pk \in Ids : product_delete(pk)

Spec == Init /\ [][Next]_vars

InitForm ==
    /\ store = NoProducts
    /\ nextId = 1
    /\ deleted = {}
    /\ pending = <<>>
    /\ resp = Response("none", OK, 0, NoErrors, NoProducts)
    /\ form \in {NewForm(data) : data \in FormInputs}

NextForm == form_is_valid

SpecForm == InitForm /\ [][NextForm]_vars


\* ------------------------------------------------- the rules, field by field
WhitespaceOnly(text) == \A i \in DOMAIN text : text[i] = " "

Trimmed(raw) == IF raw.given THEN strip(raw.text) ELSE <<>>

Negative(raw) == raw.kind = "num" /\ to_hundredths(raw) < 0

NameViolates(d) ==
    \/ ~d.name.given
    \/ WhitespaceOnly(d.name.text)
    \/ Len(Trimmed(d.name)) > MaxLength

PriceViolates(d) == d.price.kind # "num" \/ Negative(d.price)

QuantityViolates(d) ==
    d.quantity.kind # "num" \/ d.quantity.frac # 0 \/ Negative(d.quantity)

Violated(d) ==
    {k \in {"name"} : NameViolates(d)} \cup {k \in {"price"} : PriceViolates(d)}
    \cup {k \in {"quantity"} : QuantityViolates(d)}

\* the submitted fields as values: numbers parsed, text as submitted
AsSubmitted(d) ==
    [name |-> d.name.text, description |-> d.description.text,
     price |-> to_hundredths(d.price), quantity |-> to_hundredths(d.quantity) \div 100]

\* the submitted fields as values: numbers parsed, text trimmed
AsTrimmed(d) ==
    [name |-> Trimmed(d.name), description |-> Trimmed(d.description),
     price |-> to_hundredths(d.price), quantity |-> to_hundredths(d.quantity) \div 100]

Others(pk) == DOMAIN store \ {pk}

\* ------------------------------------------------------------------ claims

\* C1: an input whose price is negative, or whose quantity is negative, is
\* not valid and the error mapping has the key of each such field, whatever
\* the other fields are.
C1_NegativeRejected ==
    form.cleaned =>
        /\ Negative(form.data.price) =>
               ~form.valid /\ "price" \in DOMAIN form.errors
        /\ Negative(form.data.quantity) =>
               ~form.valid /\ "quantity" \in DOMAIN form.errors

C1_Witness ==
    /\ form.cleaned
    /\ Negative(form.data.price)
    /\ ~NameViolates(form.data) /\ ~QuantityViolates(form.data)
    /\ DOMAIN form.errors = {"price"}
    /\ form.errors["price"] = "Price cannot be negative."

\* C2 as stated: a valid input (price >= 0, quantity >= 0, name non-empty
\* after trimming and at most 100 characters) is accepted and create inserts
\* exactly one record whose four fields equal the input as submitted, under an
\* id never held before, and a Get of that id returns it.
C2_Original ==
    [][\A d \in ViewInputs :
          (Violated(d) = {} /\ product_create(d)) =>
              /\ resp'.status = REDIRECT
              /\ DOMAIN store' = DOMAIN store \cup {resp'.pk}
              /\ resp'.pk \notin DOMAIN store \cup deleted
              /\ \A k \in DOMAIN store : store'[k] = store[k]
              /\ store_get(store', resp'.pk) = <<AsSubmitted(d)>>]_vars

\* C2 amended: as C2, the stored name and description being the submitted
\* text with leading and trailing whitespace trimmed.
C2_CreateRoundTrip ==
    [][\A d \in ViewInputs :
          (Violated(d) = {} /\ product_create(d)) =>
              /\ resp'.status = REDIRECT
              /\ DOMAIN store' = DOMAIN store \cup {resp'.pk}
              /\ resp'.pk \notin DOMAIN store \cup deleted
              /\ \A k \in DOMAIN store : store'[k] = store[k]
              /\ store_get(store', resp'.pk) = <<AsTrimmed(d)>>]_vars

C2_Witness ==
    /\ resp.op = "create" /\ resp.status = REDIRECT
    /\ deleted # {}
    /\ resp.pk \in DOMAIN store
    /\ store[resp.pk].name = <<"a">>
    /\ store[resp.pk].price = 0 /\ store[resp.pk].quantity = 0

\* C3: a name that is missing, empty or only whitespace fails validation with
\* the key "name" in the error mapping, whatever the other fields are.
C3_BlankNameRejected ==
    (form.cleaned /\ (~form.data.name.given \/ WhitespaceOnly(form.data.name.text))) =>
        ~form.valid /\ "name" \in DOMAIN form.errors

C3_Witness ==
    /\ form.cleaned
    /\ form.data.name.given
    /\ Len(form.data.name.text) > 1
    /\ WhitespaceOnly(form.data.name.text)
    /\ DOMAIN form.errors = {"name"}

\* C4: every record of the store has price >= 0, quantity >= 0 and a name
\* that is neither empty nor only whitespace.
C4_StoredRecordsValid ==
    \A k \in DOMAIN store :
        /\ store[k].price >= 0
        /\ store[k].quantity >= 0
        /\ store[k].name # <<>>
        /\ ~WhitespaceOnly(store[k].name)

C4_Witness ==
    /\ Cardinality(DOMAIN store) = 1
    /\ deleted # {}
    /\ resp.op = "update" /\ resp.status = OK
    /\ {"price", "quantity"} \subseteq DOMAIN resp.errors

\* C5: create has two outcomes: a valid input inserts one record and
\* redirects (302); an invalid one answers 200 with a non-empty error mapping
\* and leaves the store as it was.
C5_CreateOutcomes ==
    [][\A d \in ViewInputs :
          product_create(d) =>
              IF Violated(d) = {}
              THEN /\ resp'.status = REDIRECT
                   /\ Cardinality(DOMAIN store') = Cardinality(DOMAIN store) + 1
                   /\ \A k \in DOMAIN store : store'[k] = store[k]
              ELSE /\ resp'.status = OK
                   /\ DOMAIN resp'.errors # {}
                   /\ store' = store
                   /\ nextId' = nextId]_vars

C5_Witness ==
    /\ resp.op = "create" /\ resp.status = OK
    /\ DOMAIN resp.errors = {"name"}
    /\ DOMAIN store # {}

C7_Original ==
    [][\A d \in ViewInputs :
          (product_update_save(d) /\ resp'.status = REDIRECT) =>
              /\ DOMAIN store' = DOMAIN store
              /\ nextId' = nextId
              /\ store'[resp'.pk] = AsSubmitted(d)
              /\ \A k \in Others(resp'.pk) : store'[k] = store[k]]_vars

\* C7 amended: as C7, the stored name and description being the submitted
\* text with leading and trailing whitespace trimmed.
C7_UpdateReplaces ==
    [][\A d \in ViewInputs :
          (product_update_save(d) /\ resp'.status = REDIRECT) =>
              /\ resp'.pk = pending[1].pk
              /\ DOMAIN store' = DOMAIN store
              /\ nextId' = nextId
              /\ store'[resp'.pk] = AsTrimmed(d)
              /\ \A k \in Others(resp'.pk) : store'[k] = store[k]]_vars

C7_Witness ==
    /\ resp.op = "update" /\ resp.status = REDIRECT
    /\ Cardinality(DOMAIN store) = 2
    /\ store[resp.pk].description = <<"d">>
    /\ \E k \in Others(resp.pk) : store[k].description = <<>>

\* C8: Update and Delete of an id that is not in the store answer not found
\* (neither 302 nor 200) and leave the store as it was; no record is inserted.
C8_MissingIdNotFound ==
    [][\A pk \in Ids \ DOMAIN store :
          /\ product_update_get(pk) =>
                /\ resp' = Response("update", NOT_FOUND, pk, NoErrors, NoProducts)
                /\ pending' = <<>>
                /\ store' = store
          /\ product_delete(pk) =>
                /\ resp' = Response("delete", NOT_FOUND, pk, NoErrors, NoProducts)
                /\ store' = store]_vars

C8_Witness ==
    /\ resp.op = "update" /\ resp.status = NOT_FOUND
    /\ resp.pk \notin deleted
    /\ resp.pk >= nextId
    /\ DOMAIN store # {}

\* C9: the error mapping has the key of every field whose rule is violated
\* and of no other, and the form is valid exactly when the mapping is empty.
C9_AllErrorsCollected ==
    form.cleaned =>
        /\ DOMAIN form.errors = Violated(form.data)
        /\ form.valid <=> (DOMAIN form.errors = {})

C9_Witness ==
    /\ form.cleaned
    /\ Violated(form.data) = {"name", "price", "quantity"}
    /\ Negative(form.data.price) /\ Negative(form.data.quantity)
    /\ DOMAIN form.errors = {"name", "price", "quantity"}

====
